---- MODULE Spec2Model ----
(***************************************************************************)
(* Trip/offer matching core of fleeeg (Fletapp).                           *)
(*                                                                         *)
(* The durable store (Supabase tables `trips` and `offers`) is shared by   *)
(* every client.  Each client is one running App component: it holds a     *)
(* logged-in user, the local `trips` and `offers` collections (read by     *)
(* the handlers through tripsRef / offersRef) and the asynchronous calls   *)
(* it has in flight.  Every `await supabase...` of a handler is one step   *)
(* of the model, so that the store requests of concurrent calls            *)
(* interleave the way the single-threaded event loops of several browsers  *)
(* let them.                                                               *)
(***************************************************************************)
EXTENDS Integers, Sequences, FiniteSets, TLC

\* ------------------------------------------------------------------ bounds
MaxTrips == 2        \* trips ever inserted
MaxOffers == 2       \* offers ever inserted
MaxCalls == 2        \* asynchronous calls in flight, all clients together
MaxOps == 5          \* calls of the context API made in one behaviour
MaxQueue == 1        \* realtime events waiting for delivery, per client and table
NumClients == 2      \* running App components, each with its own account
MaxPrice == 2        \* offer prices are 1..MaxPrice
MaxMinutes == 0      \* client clocks show 0..MaxMinutes minutes, +0 or +1 second
MaxRtOps == 2        \* calls of the context API in a behaviour of the clients behind their channels
MaxEta == 1           \* an estimate of getDriverEta is 0..MaxEta minutes
MaxEtaOps == 1        \* calls of acceptOffer in a behaviour with ETA lookups
MaxStamp == 2        \* created_at of the rows the merge alone is applied to: 1..MaxStamp
MaxDelOps == 2       \* clicks of the customer in a behaviour with deleteTrip
MaxGuardOps == 2     \* calls of acceptOffer in a behaviour with refused calls
MaxClockMin == 2     \* the clocks of a timed trip show 0..MaxClockMin minutes, +0 or +1 second
MaxCreateOps == 3    \* calls of createTrip and placeOffer in a behaviour with refused calls
MaxRejectOps == 3    \* calls of handleRejectTrip in a behaviour
MaxClockOps == 2     \* calls of startTrip and completeTrip in a behaviour of a timed trip

\* ------------------------------------------------------------------ program constants
NULL == -1           \* SQL NULL / TypeScript null of a nullable column
SecPerMin == 60      \* (1000 * 60) ms, in seconds

TripStatuses == {"requested", "accepted", "in_transit", "completed", "paid"}
OfferStatuses == {"pending", "accepted", "rejected", "cancelled"}

Clients == 1..NumClients
\* the profiles: 0 and 1 are customers, the others are drivers; customer 0 has
\* no browser running
Users == 0..NumClients
Role(u) == IF u <= 1 THEN "customer" ELSE "driver"
\* the account whose credentials browser c holds
Accounts(c) == {c}

Prices == 1..MaxPrice
Times == {m * SecPerMin + s : m \in 0..MaxMinutes, s \in {0, 1}}
\* getDriverEta: minutes, or null when the estimate is unavailable
Etas == {NULL}

\* what supabase.functions.invoke('gemini-proxy') does for getDriverEta: it
\* throws, it returns an error, or it returns data with or without etaMinutes
EtaResponses ==
    {[outcome |-> "thrown", etaMinutes |-> NULL], [outcome |-> "error", etaMinutes |-> NULL]}
    \cup {[outcome |-> "data", etaMinutes |-> m] : m \in {NULL} \cup 0..MaxEta}

\* getDriverEta with its catch block removed: the exception escapes
GetDriverEtaRethrow(response) ==
    IF response.outcome = "data" THEN response.etaMinutes ELSE NULL - 1

\* getDriverEta: `throw error` and every exception land in the catch block,
\* which returns null; data.etaMinutes ?? null otherwise
GetDriverEta(response) ==
    IF response.outcome = "data" THEN response.etaMinutes ELSE NULL

\* driver && driver.city ? await getDriverEta(...) : null
DriverEta(hasCity, response) == IF hasCity THEN GetDriverEta(response) ELSE NULL

\* acceptOffer: (offerId: number) => Promise<void>: every return of the
\* handler, the bare `return;` of a failure as the end of the body, fulfils
\* the promise with undefined
Fulfilled == "undefined"

\* Math.ceil(a / b) for a >= 0, b > 0
Ceil(a, b) == (a + b - 1) \div b

VARIABLES
    dbTrips,     \* table trips: id -> row
    dbOffers,    \* table offers: id -> row
    tripSeq,     \* last id handed out by the trips id sequence
    offerSeq,    \* last id handed out by the offers id sequence
    clock,       \* the store's clock, source of created_at
    user,        \* per client: the logged-in profile id, or NULL
    trips,       \* per client: the local trips collection
    offers,      \* per client: the local offers collection
    calls,       \* asynchronous calls between two awaits
    live,        \* per client: the realtime channels have joined
    chan,        \* per client and table: realtime events not yet handled
    ops,         \* calls of the context API made so far
    gap,         \* per client: the channels have dropped and no fetchAllData has
                 \* selected since (history, read by no action)
    resolved,    \* per client: what the last finished call of acceptOffer resolved
                 \* with or the last refused createTrip or placeOffer returned,
                 \* "pending" before the first
    sessionRejectedTripIds,  \* per client: the set of the context
    closureRejectedTripIds,  \* per client: the set handleRejectTrip closed over
                             \* at the last render of the dashboard
    rejectionInserts         \* per client and trip: the inserts into
                             \* driver_trip_rejections sent to the store

storeVars == <<dbTrips, dbOffers, tripSeq, offerSeq, clock>>
clientVars == <<user, trips, offers, resolved>>
streamVars == <<live, chan, gap>>
rejectVars == <<sessionRejectedTripIds, closureRejectedTripIds, rejectionInserts>>
vars == <<dbTrips, dbOffers, tripSeq, offerSeq, clock, user, trips, offers, calls, live, chan, ops,
          gap, resolved, sessionRejectedTripIds, closureRejectedTripIds, rejectionInserts>>

\* ------------------------------------------------------------------ collections
Range(s) == {s[i] : i \in DOMAIN s}
Rows(table) == {table[i] : i \in DOMAIN table}

\* array.some(x => x.id === id)
HasId(s, id) == \E i \in DOMAIN s : s[i].id = id

\* array.find(x => x.id === id); only used where HasId holds
FindById(s, id) == s[CHOOSE i \in DOMAIN s : s[i].id = id /\ \A j \in 1..(i - 1) : s[j].id # id]

\* the filter with its test inverted: x.id === id
KeepId(s, id) == SelectSeq(s, LAMBDA x : x.id = id)

\* array.filter(x => x.id !== id)
RemoveId(s, id) == SelectSeq(s, LAMBDA x : x.id # id)

\* the map copying the status of the row instead of putting the row
PatchId(s, row) ==
    [i \in DOMAIN s |-> IF s[i].id = row.id THEN [s[i] EXCEPT !.status = row.status] ELSE s[i]]

\* array.map(x => x.id === row.id ? row : x)
ReplaceId(s, row) == [i \in DOMAIN s |-> IF s[i].id = row.id THEN row ELSE s[i]]

\* created_at descending, the comparator (a, b) => time(b) - time(a)
IsSortedDesc(s) == \A i, j \in DOMAIN s : i < j => s[i].created_at >= s[j].created_at

\* Array.prototype.sort is stable: x goes behind every element that does not
\* compare after it
RECURSIVE InsertStable(_, _)
InsertStable(s, x) ==
    IF s = <<>> THEN <<x>>
    ELSE IF Head(s).created_at >= x.created_at
         THEN <<Head(s)>> \o InsertStable(Tail(s), x)
         ELSE <<x>> \o s

RECURSIVE SortDesc(_)
SortDesc(s) ==
    IF s = <<>> THEN <<>>
    ELSE InsertStable(SortDesc(SubSeq(s, 1, Len(s) - 1)), s[Len(s)])

\* every order in which the store may return the rows of a set
RECURSIVE Enumerations(_)
Enumerations(S) ==
    IF S = {} THEN {<<>>}
    ELSE UNION {{<<x>> \o t : t \in Enumerations(S \ {x})} : x \in S}

\* select('*').order('created_at', { ascending: false }): rows of equal
\* created_at come in an order the store chooses
SelectOrdered(table) == {s \in Enumerations(Rows(table)) : IsSortedDesc(s)}

\* select('*') and then the client-side stable sort of fetchAllData
SelectSorted(table) == {SortDesc(s) : s \in Enumerations(Rows(table))}

\* ------------------------------------------------------------------ rows
\* Database['public']['Tables']['trips']['Row'], the columns the core reads
TripRow(id, customer, createdAt) ==
    [id |-> id, customer_id |-> customer, driver_id |-> NULL, status |-> "requested",
     final_price |-> NULL, driver_arrival_time_min |-> NULL, start_time |-> NULL,
     final_duration_min |-> NULL, created_at |-> createdAt]

\* Database['public']['Tables']['offers']['Row']
OfferRow(id, tripId, driver, price, createdAt) ==
    [id |-> id, trip_id |-> tripId, driver_id |-> driver, price |-> price,
     status |-> "pending", created_at |-> createdAt]

\* ------------------------------------------------------------------ change stream
\* a postgres_changes payload
Event(type, row) ==
    [eventType |-> type, new |-> row, oldId |-> IF type = "INSERT" THEN NULL ELSE row.id]

\* a channel whose queue is full misses the event: the stream gives no
\* delivery guarantee and no gap signal
RECURSIVE Enqueue(_, _)
Enqueue(q, evs) ==
    IF evs = <<>> THEN q
    ELSE Enqueue(IF Len(q) < MaxQueue THEN Append(q, Head(evs)) ELSE q, Tail(evs))

\* the store publishes the events of a statement to the clients whose
\* channel has joined
Publish(table, evs) ==
    chan' = [c \in Clients |->
                IF live[c] THEN [chan[c] EXCEPT ![table] = Enqueue(@, evs)] ELSE chan[c]]

\* the ids of a set as an ascending sequence
RECURSIVE Ascending(_)
Ascending(S) ==
    IF S = {} THEN <<>>
    ELSE LET m == CHOOSE x \in S : \A y \in S : x <= y
         IN <<m>> \o Ascending(S \ {m})

\* ------------------------------------------------------------------ calls in flight
\* what an asynchronous call keeps in its closure between two awaits.
\* storeStatus is history, read by no action: the status the store held for
\* the trip when acceptOffer was called.
Call(c, pc, offerId, tripId, driver, price, eta, storeStatus) ==
    [client |-> c, pc |-> pc, offerId |-> offerId, tripId |-> tripId,
     driver_id |-> driver, price |-> price, eta |-> eta, storeStatus |-> storeStatus,
     data |-> <<>>, failed |-> FALSE]

\* await fetchAllData() at the end of a handler: the call goes on with the
\* first select it awaits
FetchCall(c) == Call(c, "selectTrips", NULL, NULL, NULL, NULL, NULL, "none")

CanCall == Cardinality(calls) < MaxCalls

\* one more call of the context API
Op == ops < MaxOps /\ ops' = ops + 1

\* ------------------------------------------------------------------ session
\* handleSession with a session: setUser(profile), and fetchAllData on a new login
Login(c, u) ==
    /\ user[c] = NULL
    /\ CanCall
    /\ user' = [user EXCEPT ![c] = u]
    /\ calls' = calls \cup {FetchCall(c)}
    /\ UNCHANGED <<storeVars, trips, offers, resolved, streamVars, ops, rejectVars>>

\* handleSession(null): the user and the collections are cleared
Logout(c) ==
    /\ user[c] # NULL
    /\ Op
    /\ user' = [user EXCEPT ![c] = NULL]
    /\ trips' = [trips EXCEPT ![c] = <<>>]
    /\ offers' = [offers EXCEPT ![c] = <<>>]
    /\ UNCHANGED <<storeVars, calls, resolved, streamVars, rejectVars>>

\* ------------------------------------------------------------------ fetchAllData
\* await supabase.from('trips').select('*').order('created_at', ...); failed
\* says that the select returns an error
SelectTrips(call, failed) ==
    /\ call.pc = "selectTrips"
    /\ \E data \in (IF failed THEN {<<>>} ELSE SelectOrdered(dbTrips)) :
           calls' = (calls \ {call}) \cup
                    {[call EXCEPT !.pc = "setTrips", !.data = data, !.failed = failed]}
    /\ gap' = [gap EXCEPT ![call.client] = FALSE]
    /\ UNCHANGED <<storeVars, clientVars, live, chan, ops, rejectVars>>

\* if (tripsError) console.error(...) else setTrips(tripsData || [])
SetTrips(call) ==
    /\ call.pc = "setTrips"
    /\ trips' = IF call.failed THEN trips ELSE [trips EXCEPT ![call.client] = call.data]
    /\ calls' = (calls \ {call}) \cup
                {[call EXCEPT !.pc = "selectOffers", !.data = <<>>, !.failed = FALSE]}
    /\ UNCHANGED <<storeVars, user, offers, resolved, streamVars, ops, rejectVars>>

\* await supabase.from('offers').select('*')
SelectOffers(call, failed) ==
    /\ call.pc = "selectOffers"
    /\ \E data \in (IF failed THEN {<<>>} ELSE SelectSorted(dbOffers)) :
           calls' = (calls \ {call}) \cup
                    {[call EXCEPT !.pc = "setOffers", !.data = data, !.failed = failed]}
    /\ UNCHANGED <<storeVars, clientVars, streamVars, ops, rejectVars>>

\* if (offersError) setOffers([]) else setOffers(sortedOffers)
SetOffers(call) ==
    /\ call.pc = "setOffers"
    /\ offers' = [offers EXCEPT ![call.client] = IF call.failed THEN <<>> ELSE call.data]
    /\ calls' = calls \ {call}
    /\ resolved' = IF call.offerId # NULL
                   THEN [resolved EXCEPT ![call.client] = Fulfilled]
                   ELSE resolved
    /\ UNCHANGED <<storeVars, user, trips, streamVars, ops, rejectVars>>

\* ------------------------------------------------------------------ store statements
\* from('trips').update(payload).eq('id', tripId): no condition on the row's
\* current status
UpdateTripRow(tripId, row) ==
    /\ dbTrips' = [dbTrips EXCEPT ![tripId] = row]
    /\ Publish("trips", <<Event("UPDATE", row)>>)

\* from('offers').update({ status }).eq('id', ...) / .in('id', ids)
UpdateOfferStatus(ids, status) ==
    LET hit == ids \cap DOMAIN dbOffers
        new == [o \in DOMAIN dbOffers |->
                   IF o \in hit THEN [dbOffers[o] EXCEPT !.status = status] ELSE dbOffers[o]]
        idSeq == Ascending(hit)
    IN /\ dbOffers' = new
       /\ Publish("offers", [i \in DOMAIN idSeq |-> Event("UPDATE", new[idSeq[i]])])

\* from('trips').insert(row): the store hands out the id and stamps created_at
\* with its clock
InsertTrip(customer, createdAt) ==
    LET row == TripRow(tripSeq + 1, customer, createdAt)
    IN /\ tripSeq' = tripSeq + 1
       /\ clock' = createdAt
       /\ dbTrips' = [id \in DOMAIN dbTrips \cup {tripSeq + 1} |->
                         IF id = tripSeq + 1 THEN row ELSE dbTrips[id]]
       /\ Publish("trips", <<Event("INSERT", row)>>)

\* from('offers').insert(row)
InsertOffer(tripId, driver, price, createdAt) ==
    LET row == OfferRow(offerSeq + 1, tripId, driver, price, createdAt)
    IN /\ offerSeq' = offerSeq + 1
       /\ clock' = createdAt
       /\ dbOffers' = [id \in DOMAIN dbOffers \cup {offerSeq + 1} |->
                          IF id = offerSeq + 1 THEN row ELSE dbOffers[id]]
       /\ Publish("offers", <<Event("INSERT", row)>>)

\* ------------------------------------------------------------------ createTrip, placeOffer
\* a store error returns DBError without fetchAllData and changes nothing
CreateTrip(c, createdAt) ==
    /\ user[c] # NULL /\ Role(user[c]) = "customer"
    /\ tripSeq < MaxTrips
    /\ CanCall /\ Op
    /\ InsertTrip(user[c], createdAt)
    /\ calls' = calls \cup {FetchCall(c)}
    /\ UNCHANGED <<dbOffers, offerSeq, clientVars, live, gap, rejectVars>>

\* the handler checks the caller's role only; the trips offered on are trips
\* the store holds
PlaceOffer(c, tripId, price, createdAt) ==
    /\ user[c] # NULL /\ Role(user[c]) = "driver"
    /\ tripId \in DOMAIN dbTrips
    /\ offerSeq < MaxOffers
    /\ CanCall /\ Op
    /\ InsertOffer(tripId, user[c], price, createdAt)
    /\ calls' = calls \cup {FetchCall(c)}
    /\ UNCHANGED <<dbTrips, tripSeq, clientVars, live, gap, rejectVars>>

\* the object the caller hands to createTrip: NewTrip omits customer_id,
\* status and driver_id, but the object may carry them at run time
TripData == [customer_id : {NULL, 0}, status : {"requested", "accepted"}, driver_id : {NULL, 2}]

\* the spread written after the three columns: { customer_id, status, driver_id, ...tripData }
TripToInsertSpreadLast(tripData, currentUser) == tripData

\* { ...tripData, customer_id: currentUser.id, status: 'requested', driver_id: null }
TripToInsert(tripData, currentUser) ==
    [tripData EXCEPT !.customer_id = currentUser, !.status = "requested", !.driver_id = NULL]

\* return { name: 'AuthError', ... } of createTrip and of placeOffer
AuthError(c) ==
    /\ Op
    /\ resolved' = [resolved EXCEPT ![c] = "AuthError"]
    /\ UNCHANGED <<storeVars, user, trips, offers, calls, streamVars, rejectVars>>

\* createTrip(tripData), whoever calls it
CreateTripCall(c, tripData, createdAt) ==
    IF user[c] = NULL \/ Role(user[c]) # "customer"
    THEN AuthError(c)
    ELSE LET tripToInsert == TripToInsert(tripData, user[c])
             row == [TripRow(tripSeq + 1, tripToInsert.customer_id, createdAt) EXCEPT
                        !.status = tripToInsert.status,
                        !.driver_id = tripToInsert.driver_id]
         IN /\ tripSeq < MaxTrips
            /\ CanCall /\ Op
            /\ tripSeq' = tripSeq + 1
            /\ clock' = createdAt
            /\ dbTrips' = [id \in DOMAIN dbTrips \cup {tripSeq + 1} |->
                              IF id = tripSeq + 1 THEN row ELSE dbTrips[id]]
            /\ Publish("trips", <<Event("INSERT", row)>>)
            /\ calls' = calls \cup {FetchCall(c)}
            /\ UNCHANGED <<dbOffers, offerSeq, clientVars, live, gap, rejectVars>>

\* placeOffer(tripId, price, notes), whoever calls it
PlaceOfferCall(c, tripId, price, createdAt) ==
    IF user[c] = NULL \/ Role(user[c]) # "driver"
    THEN AuthError(c)
    ELSE PlaceOffer(c, tripId, price, createdAt)

\* ------------------------------------------------------------------ acceptOffer
\* acceptOffer without the comparison of tripToUpdate.customer_id with the caller
AcceptOfferNoOwner(c, offerId, eta) ==
    /\ user[c] # NULL /\ Role(user[c]) = "customer"
    /\ HasId(offers[c], offerId)
    /\ LET offerToAccept == FindById(offers[c], offerId)
           tripId == offerToAccept.trip_id
       IN /\ HasId(trips[c], tripId)
          /\ CanCall /\ Op
          /\ calls' = calls \cup {Call(c, "updateTrip", offerId, tripId,
                                       offerToAccept.driver_id, offerToAccept.price, eta,
                                       dbTrips[tripId].status)}
    /\ UNCHANGED <<storeVars, clientVars, streamVars, rejectVars>>

\* the synchronous part: the guards on userRef, offersRef and tripsRef, and
\* the ETA the call awaits before its first store statement
AcceptOffer(c, offerId, eta) ==
    /\ user[c] # NULL /\ Role(user[c]) = "customer"
    /\ HasId(offers[c], offerId)
    /\ LET offerToAccept == FindById(offers[c], offerId)
           tripId == offerToAccept.trip_id
       IN /\ HasId(trips[c], tripId)
          /\ FindById(trips[c], tripId).customer_id = user[c]
          /\ CanCall /\ Op
          /\ calls' = calls \cup {Call(c, "updateTrip", offerId, tripId,
                                       offerToAccept.driver_id, offerToAccept.price, eta,
                                       dbTrips[tripId].status)}
    /\ UNCHANGED <<storeVars, clientVars, streamVars, rejectVars>>

\* the three early returns of acceptOffer
AcceptRefused(c, offerId) ==
    IF user[c] = NULL THEN TRUE
    ELSE IF Role(user[c]) # "customer" THEN TRUE
    ELSE IF ~HasId(offers[c], offerId) THEN TRUE
    ELSE LET tripId == FindById(offers[c], offerId).trip_id
         IN IF ~HasId(trips[c], tripId) THEN TRUE
            ELSE FindById(trips[c], tripId).customer_id # user[c]

\* a bare `return;`: the promise is fulfilled with undefined and nothing else
\* has happened
AcceptOfferReturn(c, offerId) ==
    /\ AcceptRefused(c, offerId)
    /\ Op
    /\ resolved' = [resolved EXCEPT ![c] = Fulfilled]
    /\ UNCHANGED <<storeVars, user, trips, offers, calls, streamVars, rejectVars>>

\* acceptOffer(offerId), whoever calls it
AcceptOfferCall(c, offerId, eta) ==
    \/ AcceptOffer(c, offerId, eta)
    \/ AcceptOfferReturn(c, offerId)

\* 1. Update Trip
TripStep(call, tripError) ==
    /\ call.pc = "updateTrip"
    /\ IF tripError
       THEN /\ calls' = calls \ {call}
            /\ resolved' = [resolved EXCEPT ![call.client] = Fulfilled]
            /\ UNCHANGED <<dbTrips, chan>>
       ELSE /\ UpdateTripRow(call.tripId,
                  [dbTrips[call.tripId] EXCEPT !.driver_id = call.driver_id,
                                               !.status = "accepted",
                                               !.final_price = call.price,
                                               !.driver_arrival_time_min = call.eta])
            /\ calls' = (calls \ {call}) \cup {[call EXCEPT !.pc = "updateOffer"]}
            /\ UNCHANGED resolved
    /\ UNCHANGED <<dbOffers, tripSeq, offerSeq, clock, user, trips, offers, live, gap, ops,
                   rejectVars>>

\* on tripError the call returns; without it the call goes on
AcceptUpdateTrip(call) == \E tripError \in BOOLEAN : TripStep(call, tripError)

\* 2. Update Accepted Offer
OfferStep(call, offerError) ==
    /\ call.pc = "updateOffer"
    /\ IF offerError
       THEN UNCHANGED <<dbOffers, chan>>
       ELSE UpdateOfferStatus({call.offerId}, "accepted")
    /\ calls' = (calls \ {call}) \cup {[call EXCEPT !.pc = "rejectOthers"]}
    /\ UNCHANGED <<dbTrips, tripSeq, offerSeq, clock, clientVars, live, gap, ops, rejectVars>>

\* offerError is logged and the call goes on
AcceptUpdateOffer(call) == \E offerError \in BOOLEAN : OfferStep(call, offerError)

\* offersRef.current.filter(o => o.trip_id === tripId && o.id !== offerId).map(o => o.id)
OtherOfferIds(c, tripId, offerId) ==
    {o.id : o \in {x \in Range(offers[c]) : x.trip_id = tripId /\ x.id # offerId}}

\* 3. Reject other offers for this trip, then await fetchAllData()
RejectStep(call, rejectError) ==
    /\ call.pc = "rejectOthers"
    /\ LET otherOfferIds == OtherOfferIds(call.client, call.tripId, call.offerId)
       IN IF otherOfferIds = {} \/ rejectError
          THEN UNCHANGED <<dbOffers, chan>>
          ELSE UpdateOfferStatus(otherOfferIds, "rejected")
    /\ calls' = (calls \ {call}) \cup {[call EXCEPT !.pc = "selectTrips"]}
    /\ UNCHANGED <<dbTrips, tripSeq, offerSeq, clock, clientVars, live, gap, ops, rejectVars>>

\* rejectError is logged and the call goes on
AcceptRejectOthers(call) == \E rejectError \in BOOLEAN : RejectStep(call, rejectError)

\* ------------------------------------------------------------------ startTrip, completeTrip, processPayment
\* the call reads the caller's clock (new Date()); a store error returns
\* without fetchAllData and changes nothing
StartTrip(c, tripId, now) ==
    /\ user[c] # NULL /\ Role(user[c]) = "driver"
    /\ tripId \in DOMAIN dbTrips
    /\ CanCall /\ Op
    /\ UpdateTripRow(tripId, [dbTrips[tripId] EXCEPT !.status = "in_transit", !.start_time = now])
    /\ calls' = calls \cup {FetchCall(c)}
    /\ UNCHANGED <<dbOffers, tripSeq, offerSeq, clock, clientVars, live, gap, rejectVars>>

\* Math.floor in the place of Math.ceil
FinalDurationFloor(now, startTime) == (now - startTime) \div SecPerMin

\* Math.ceil((Date.now() - startTimeMs) / (1000 * 60))
FinalDurationMin(now, startTime) == Ceil(now - startTime, SecPerMin)

\* the guard reads the caller's copy of the trip (tripsRef), not the store;
\* the caller's clock is not before the start_time it reads
CompleteTrip(c, tripId, now) ==
    /\ HasId(trips[c], tripId)
    /\ LET trip == FindById(trips[c], tripId)
       IN /\ trip.status = "in_transit"
          /\ trip.start_time # NULL
          /\ now >= trip.start_time
          /\ tripId \in DOMAIN dbTrips
          /\ CanCall /\ Op
          /\ UpdateTripRow(tripId, [dbTrips[tripId] EXCEPT
                 !.status = "completed",
                 !.final_duration_min = FinalDurationMin(now, trip.start_time)])
    /\ calls' = calls \cup {FetchCall(c)}
    /\ UNCHANGED <<dbOffers, tripSeq, offerSeq, clock, clientVars, live, gap, rejectVars>>

\* no guard on the caller or on the trip
ProcessPayment(c, tripId) ==
    /\ tripId \in DOMAIN dbTrips
    /\ CanCall /\ Op
    /\ UpdateTripRow(tripId, [dbTrips[tripId] EXCEPT !.status = "paid"])
    /\ calls' = calls \cup {FetchCall(c)}
    /\ UNCHANGED <<dbOffers, tripSeq, offerSeq, clock, clientVars, live, gap, rejectVars>>

\* updateTrip(tripId, tripData) with the payload of the trip form: descriptive
\* columns only, so the columns of the core keep their values; no fetchAllData
UpdateTrip(c, tripId) ==
    /\ tripId \in DOMAIN dbTrips
    /\ Op
    /\ UpdateTripRow(tripId, dbTrips[tripId])
    /\ UNCHANGED <<dbOffers, tripSeq, offerSeq, clock, clientVars, calls, live, gap, rejectVars>>

\* ------------------------------------------------------------------ deleteTrip
\* from('trips').delete().eq('id', tripId): no condition on the row's status;
\* the store publishes the old record of the row it removed
DeleteTripRow(tripId) ==
    /\ dbTrips' = [id \in DOMAIN dbTrips \ {tripId} |-> dbTrips[id]]
    /\ Publish("trips", IF tripId \in DOMAIN dbTrips
                        THEN <<Event("DELETE", dbTrips[tripId])>>
                        ELSE <<>>)

\* deleteTrip reads neither userRef nor tripsRef; no fetchAllData
DeleteTrip(c, tripId) ==
    /\ Op
    /\ DeleteTripRow(tripId)
    /\ UNCHANGED <<dbOffers, tripSeq, offerSeq, clock, clientVars, calls, live, gap, rejectVars>>

\* the Eliminar button of a TripCard: rendered for the trips of the customer
\* (userTrips) whose status in the local collection is requested; handleDelete
\* calls deleteTrip once the customer has confirmed
HandleDelete(c, tripId) ==
    /\ user[c] # NULL
    /\ HasId(trips[c], tripId)
    /\ FindById(trips[c], tripId).customer_id = user[c]
    /\ FindById(trips[c], tripId).status = "requested"
    /\ DeleteTrip(c, tripId)

\* ------------------------------------------------------------------ realtime
\* .subscribe(): the channels of a client join some time after the mount, and
\* the realtime client joins them again after a drop
Subscribed(c) ==
    /\ ~live[c]
    /\ live' = [live EXCEPT ![c] = TRUE]
    /\ UNCHANGED <<storeVars, clientVars, calls, chan, gap, ops, rejectVars>>

\* the websocket drops: the events in flight are lost with it and the events
\* the store publishes from now on never reach the client; the handlers are
\* told nothing (subscribe() is given no status callback)
Dropped(c) ==
    /\ live[c]
    /\ live' = [live EXCEPT ![c] = FALSE]
    /\ chan' = [chan EXCEPT ![c] = [trips |-> <<>>, offers |-> <<>>]]
    /\ gap' = [gap EXCEPT ![c] = TRUE]
    /\ UNCHANGED <<storeVars, clientVars, calls, ops, rejectVars>>

\* the updater without the duplicate check of its INSERT branch
MergeNoDedup(current, payload) ==
    IF payload.eventType = "INSERT"
    THEN SortDesc(<<payload.new>> \o current)
    ELSE IF payload.eventType = "UPDATE"
    THEN ReplaceId(current, payload.new)
    ELSE IF payload.eventType = "DELETE" /\ payload.oldId # NULL
    THEN RemoveId(current, payload.oldId)
    ELSE current

\* the updater passed to setTrips / setOffers by the postgres_changes handler
Merge(current, payload) ==
    IF payload.eventType = "INSERT"
    THEN IF HasId(current, payload.new.id) THEN current
         ELSE SortDesc(<<payload.new>> \o current)
    ELSE IF payload.eventType = "UPDATE"
    THEN ReplaceId(current, payload.new)
    ELSE IF payload.eventType = "DELETE" /\ payload.oldId # NULL
    THEN RemoveId(current, payload.oldId)
    ELSE current

TripsRealtime(c) ==
    /\ chan[c].trips # <<>>
    /\ trips' = [trips EXCEPT ![c] = Merge(@, Head(chan[c].trips))]
    /\ chan' = [chan EXCEPT ![c].trips = Tail(@)]
    /\ UNCHANGED <<storeVars, user, offers, calls, live, gap, resolved, ops, rejectVars>>

OffersRealtime(c) ==
    /\ chan[c].offers # <<>>
    /\ offers' = [offers EXCEPT ![c] = Merge(@, Head(chan[c].offers))]
    /\ chan' = [chan EXCEPT ![c].offers = Tail(@)]
    /\ UNCHANGED <<storeVars, user, trips, calls, live, gap, resolved, ops, rejectVars>>

\* ------------------------------------------------------------------ rejecting a trip
\* addRejectedTripId: the set of the context is replaced by one that holds
\* the id as well; the components see it when they render next
AddRejectedTripId(c, tripId) ==
    sessionRejectedTripIds' = [sessionRejectedTripIds EXCEPT ![c] = @ \cup {tripId}]

\* rejectTrip: AuthError for anybody but a driver, else the insert is sent
RejectTrip(c, tripId) ==
    rejectionInserts' =
        IF user[c] # NULL /\ Role(user[c]) = "driver"
        THEN [rejectionInserts EXCEPT ![c][tripId] = @ + 1]
        ELSE rejectionInserts

\* handleRejectTrip tests the set of its closure, adds the id and calls
\* rejectTrip, whose insert leaves before the first await
HandleRejectTrip(c, tripId) ==
    /\ Op
    /\ IF tripId \in closureRejectedTripIds[c]
       THEN UNCHANGED <<sessionRejectedTripIds, rejectionInserts>>
       ELSE AddRejectedTripId(c, tripId) /\ RejectTrip(c, tripId)
    /\ UNCHANGED <<storeVars, clientVars, calls, streamVars, closureRejectedTripIds>>

\* the dashboard renders with the context's new value: useCallback builds
\* handleRejectTrip again, closing over the set of this render
Render(c) ==
    /\ closureRejectedTripIds[c] # sessionRejectedTripIds[c]
    /\ closureRejectedTripIds' = [closureRejectedTripIds EXCEPT ![c] = sessionRejectedTripIds[c]]
    /\ UNCHANGED <<storeVars, clientVars, calls, streamVars, ops, sessionRejectedTripIds,
                   rejectionInserts>>

\* a session starts with nothing rejected
NothingRejected ==
    /\ sessionRejectedTripIds = [c \in Clients |-> {}]
    /\ closureRejectedTripIds = [c \in Clients |-> {}]
    /\ rejectionInserts = [c \in Clients |-> [t \in 1..MaxTrips |-> 0]]

\* ------------------------------------------------------------------ specification
\* the state after the App components have mounted: nobody is logged in, the
\* collections are empty, the channels have not joined yet
Init ==
    /\ dbTrips = <<>>
    /\ dbOffers = <<>>
    /\ tripSeq = 0
    /\ offerSeq = 0
    /\ clock = 0
    /\ user = [c \in Clients |-> NULL]
    /\ trips = [c \in Clients |-> <<>>]
    /\ offers = [c \in Clients |-> <<>>]
    /\ calls = {}
    /\ live = [c \in Clients |-> FALSE]
    /\ chan = [c \in Clients |-> [trips |-> <<>>, offers |-> <<>>]]
    /\ ops = 0
    /\ gap = [c \in Clients |-> FALSE]
    /\ resolved = [c \in Clients |-> "pending"]
    /\ NothingRejected

TripIds == 1..MaxTrips
OfferIds == 1..MaxOffers

\* The calls of the context API and the steps of the calls in flight.  The
\* realtime channels stay unjoined in these behaviours (a blocked websocket,
\* a table outside the publication): the clients see the store through
\* fetchAllData alone, whose selects return no error, the timestamps of the
\* store are distinct, and every trip is started at second 0 of the clocks.
Next ==
    \/ \E c \in Clients : \E u \in Accounts(c) : Login(c, u)
    \/ \E c \in Clients : Logout(c)
    \/ \E call \in calls : SelectTrips(call, FALSE)
    \/ \E call \in calls : SetTrips(call)
    \/ \E call \in calls : SelectOffers(call, FALSE)
    \/ \E call \in calls : SetOffers(call)
    \/ \E c \in Clients : CreateTrip(c, clock + 1)
    \/ \E c \in Clients, t \in TripIds, p \in Prices : PlaceOffer(c, t, p, clock + 1)
    \/ \E c \in Clients, o \in OfferIds, eta \in Etas : AcceptOffer(c, o, eta)
    \/ \E call \in calls : AcceptUpdateTrip(call)
    \/ \E call \in calls : AcceptUpdateOffer(call)
    \/ \E call \in calls : AcceptRejectOthers(call)
    \/ \E c \in Clients, t \in TripIds : StartTrip(c, t, 0)
    \/ \E c \in Clients, t \in TripIds, now \in Times : CompleteTrip(c, t, now)
    \/ \E c \in Clients, t \in TripIds : ProcessPayment(c, t)
    \/ \E c \in Clients, t \in TripIds : UpdateTrip(c, t)

Spec == Init /\ [][Next]_vars

\* ------------------------------------------------------------------ the clients behind their channels
\* The clients with their realtime channels joining, dropping and joining
\* again, selects that may return an error, and inserts that the store may
\* stamp with the created_at of the row before.  At most MaxRtOps calls of
\* the context API are made.
NextRT ==
    \/ \E c \in Clients : \E u \in Accounts(c) : Login(c, u)
    \/ \E call \in calls, failed \in BOOLEAN : SelectTrips(call, failed)
    \/ \E call \in calls : SetTrips(call)
    \/ \E call \in calls, failed \in BOOLEAN : SelectOffers(call, failed)
    \/ \E call \in calls : SetOffers(call)
    \/ \E c \in Clients, at \in {clock, clock + 1} : ops < MaxRtOps /\ CreateTrip(c, at)
    \/ \E c \in Clients, t \in TripIds : ops < MaxRtOps /\ PlaceOffer(c, t, 1, clock + 1)
    \/ \E c \in Clients, t \in TripIds : ops < MaxRtOps /\ ProcessPayment(c, t)
    \/ \E c \in Clients : Subscribed(c)
    \/ \E c \in Clients : ~gap[c] /\ Dropped(c)
    \/ \E c \in Clients : TripsRealtime(c)
    \/ \E c \in Clients : OffersRealtime(c)

SpecRT == Init /\ [][NextRT]_vars

\* ------------------------------------------------------------------ a lossless stream
\* The clients behind channels that join once and never drop, with every
\* event delivered: a statement is issued only when the events before it have
\* been handled, so that no queue overflows, and a row is updated only when
\* every channel has joined: what a client can miss is an insert made before
\* its channels joined.  Selects return no error.  The calls in flight, the
\* handlers and the joining channels take their steps sooner or later.
Joined == \A c \in Clients : live[c]

Drained == \A c \in Clients : chan[c].trips = <<>> /\ chan[c].offers = <<>>

NextSync ==
    \/ \E c \in Clients : \E u \in Accounts(c) : Login(c, u)
    \/ \E call \in calls : SelectTrips(call, FALSE)
    \/ \E call \in calls : SetTrips(call)
    \/ \E call \in calls : SelectOffers(call, FALSE)
    \/ \E call \in calls : SetOffers(call)
    \/ \E c \in Clients : ops < MaxRtOps /\ Drained /\ CreateTrip(c, clock + 1)
    \/ \E c \in Clients, t \in TripIds : ops < MaxRtOps /\ Drained /\ PlaceOffer(c, t, 1, clock + 1)
    \/ \E c \in Clients, t \in TripIds : ops < MaxRtOps /\ Drained /\ Joined /\ ProcessPayment(c, t)
    \/ \E c \in Clients : Subscribed(c)
    \/ \E c \in Clients : TripsRealtime(c)
    \/ \E c \in Clients : OffersRealtime(c)

Steps ==
    \/ \E call \in calls : SelectTrips(call, FALSE)
    \/ \E call \in calls : SetTrips(call)
    \/ \E call \in calls : SelectOffers(call, FALSE)
    \/ \E call \in calls : SetOffers(call)
    \/ \E c \in Clients : Subscribed(c)
    \/ \E c \in Clients : TripsRealtime(c)
    \/ \E c \in Clients : OffersRealtime(c)

SpecSync == Init /\ [][NextSync]_vars /\ WF_vars(Steps)

\* ------------------------------------------------------------------ accepting with ETA lookups
\* The customer is logged in and has fetched their requested trip 1, on which
\* the driver has placed MaxOffers offers; the channels are unjoined.
EtaOffers == [o \in OfferIds |-> OfferRow(o, 1, 2, 1, 1 + o)]

InitEta ==
    /\ dbTrips = <<TripRow(1, 1, 1)>>
    /\ dbOffers = EtaOffers
    /\ tripSeq = 1
    /\ offerSeq = MaxOffers
    /\ clock = 1 + MaxOffers
    /\ user = [c \in Clients |-> IF c = 1 THEN 1 ELSE NULL]
    /\ trips = [c \in Clients |-> IF c = 1 THEN <<TripRow(1, 1, 1)>> ELSE <<>>]
    /\ offers = [c \in Clients |-> IF c = 1 THEN SortDesc(EtaOffers) ELSE <<>>]
    /\ calls = {}
    /\ live = [c \in Clients |-> FALSE]
    /\ chan = [c \in Clients |-> [trips |-> <<>>, offers |-> <<>>]]
    /\ ops = 0
    /\ gap = [c \in Clients |-> FALSE]
    /\ resolved = [c \in Clients |-> "pending"]
    /\ NothingRejected

\* The customer accepts offers, at most MaxEtaOps times, with every answer of
\* the ETA function and drivers with and without a city; the selects of
\* fetchAllData return no error.
NextEta ==
    \/ \E c \in Clients, o \in OfferIds, hasCity \in BOOLEAN, response \in EtaResponses :
          ops < MaxEtaOps /\ AcceptOffer(c, o, DriverEta(hasCity, response))
    \/ \E call \in calls : AcceptUpdateTrip(call)
    \/ \E call \in calls : AcceptUpdateOffer(call)
    \/ \E call \in calls : AcceptRejectOthers(call)
    \/ \E call \in calls : SelectTrips(call, FALSE)
    \/ \E call \in calls : SetTrips(call)
    \/ \E call \in calls : SelectOffers(call, FALSE)
    \/ \E call \in calls : SetOffers(call)

SpecEta == InitEta /\ [][NextEta]_vars

\* ------------------------------------------------------------------ the merge alone
\* The handlers of the two channels applied to every local collection and
\* every payload: client 1 is logged in with a joined channel, holds a
\* collection as the code keeps it (distinct ids, created_at descending) and
\* has one payload waiting that the stream delivers twice.
MergeTripRows ==
    {[TripRow(id, 1, at) EXCEPT !.status = st] :
        id \in TripIds, at \in 1..MaxStamp, st \in {"requested", "accepted"}}

MergeOfferRows ==
    {[OfferRow(id, 1, 2, 1, at) EXCEPT !.status = st] :
        id \in OfferIds, at \in 1..MaxStamp, st \in {"pending", "rejected"}}

Collections(rows, maxLen) ==
    {s \in UNION {[1..n -> rows] : n \in 0..maxLen} :
        /\ IsSortedDesc(s)
        /\ \A i, j \in DOMAIN s : i # j => s[i].id # s[j].id}

\* INSERT and UPDATE carry the row; DELETE carries the old id, of a row the
\* client may never have seen, or no old record at all
TripPayloads ==
    {Event(type, row) : type \in {"INSERT", "UPDATE"}, row \in MergeTripRows}
    \cup {Event("DELETE", TripRow(id, 1, 1)) : id \in 1..(MaxTrips + 1)}
    \cup {[Event("DELETE", TripRow(1, 1, 1)) EXCEPT !.oldId = NULL]}

OfferPayloads ==
    {Event(type, row) : type \in {"INSERT", "UPDATE"}, row \in MergeOfferRows}
    \cup {Event("DELETE", OfferRow(id, 1, 2, 1, 1)) : id \in 1..(MaxOffers + 1)}
    \cup {[Event("DELETE", OfferRow(1, 1, 2, 1, 1)) EXCEPT !.oldId = NULL]}

InitMerge ==
    /\ dbTrips = <<>>
    /\ dbOffers = <<>>
    /\ tripSeq = 0
    /\ offerSeq = 0
    /\ clock = 0
    /\ user = [c \in Clients |-> IF c = 1 THEN 1 ELSE NULL]
    /\ calls = {}
    /\ live = [c \in Clients |-> c = 1]
    /\ ops = 0
    /\ gap = [c \in Clients |-> FALSE]
    /\ resolved = [c \in Clients |-> "pending"]
    /\ NothingRejected
    /\ \/ /\ \E s \in Collections(MergeTripRows, MaxTrips) :
                trips = [c \in Clients |-> IF c = 1 THEN s ELSE <<>>]
          /\ offers = [c \in Clients |-> <<>>]
          /\ \E e \in TripPayloads :
                chan = [c \in Clients |->
                           [trips |-> IF c = 1 THEN <<e, e>> ELSE <<>>, offers |-> <<>>]]
       \/ /\ \E s \in Collections(MergeOfferRows, MaxOffers) :
                offers = [c \in Clients |-> IF c = 1 THEN s ELSE <<>>]
          /\ trips = [c \in Clients |-> <<>>]
          /\ \E e \in OfferPayloads :
                chan = [c \in Clients |->
                           [trips |-> <<>>, offers |-> IF c = 1 THEN <<e, e>> ELSE <<>>]]

NextMerge ==
    \/ \E c \in Clients : TripsRealtime(c)
    \/ \E c \in Clients : OffersRealtime(c)

SpecMerge == InitMerge /\ [][NextMerge]_vars

\* ------------------------------------------------------------------ deleting a trip
\* The customer of InitEta with their requested trip and its offers on the
\* screen: they accept an offer and delete the trip, at most MaxDelOps clicks
\* in all.  Accepting an offer of a trip that is gone is left out.
NextDelete ==
    \/ \E c \in Clients, o \in OfferIds :
          ops < MaxDelOps /\ dbOffers[o].trip_id \in DOMAIN dbTrips /\ AcceptOffer(c, o, NULL)
    \/ \E call \in calls : call.tripId \in DOMAIN dbTrips /\ AcceptUpdateTrip(call)
    \/ \E call \in calls : AcceptUpdateOffer(call)
    \/ \E call \in calls : AcceptRejectOthers(call)
    \/ \E call \in calls : SelectTrips(call, FALSE)
    \/ \E call \in calls : SetTrips(call)
    \/ \E call \in calls : SelectOffers(call, FALSE)
    \/ \E call \in calls : SetOffers(call)
    \/ \E c \in Clients, t \in TripIds : ops < MaxDelOps /\ HandleDelete(c, t)

SpecDelete == InitEta /\ [][NextDelete]_vars

\* ------------------------------------------------------------------ acceptOffer by anybody
\* The store holds MaxTrips requested trips, the odd ones of customer 1 and
\* the even ones of customer 0, and one pending offer of driver 2 on each.  A
\* browser is either logged out, with empty collections, or logged in with
\* the rows of the store fetched.
GuardTrips == [t \in TripIds |-> TripRow(t, t % 2, t)]
GuardOffers == [o \in TripIds |-> OfferRow(o, o, 2, 1, MaxTrips + o)]

InitGuard ==
    /\ dbTrips = GuardTrips
    /\ dbOffers = GuardOffers
    /\ tripSeq = MaxTrips
    /\ offerSeq = MaxTrips
    /\ clock = 2 * MaxTrips
    /\ user \in [Clients -> {NULL} \cup Clients]
    /\ \A c \in Clients : user[c] \in {NULL} \cup Accounts(c)
    /\ trips = [c \in Clients |-> IF user[c] = NULL THEN <<>> ELSE SortDesc(GuardTrips)]
    /\ offers = [c \in Clients |-> IF user[c] = NULL THEN <<>> ELSE SortDesc(GuardOffers)]
    /\ calls = {}
    /\ live = [c \in Clients |-> FALSE]
    /\ chan = [c \in Clients |-> [trips |-> <<>>, offers |-> <<>>]]
    /\ ops = 0
    /\ gap = [c \in Clients |-> FALSE]
    /\ resolved = [c \in Clients |-> "pending"]
    /\ NothingRejected

\* acceptOffer is called from every browser for every offer, at most
\* MaxGuardOps times; the selects of fetchAllData return no error
NextGuard ==
    \/ \E c \in Clients, o \in TripIds : ops < MaxGuardOps /\ AcceptOfferCall(c, o, NULL)
    \/ \E call \in calls : AcceptUpdateTrip(call)
    \/ \E call \in calls : AcceptUpdateOffer(call)
    \/ \E call \in calls : AcceptRejectOthers(call)
    \/ \E call \in calls : SelectTrips(call, FALSE)
    \/ \E call \in calls : SetTrips(call)
    \/ \E call \in calls : SelectOffers(call, FALSE)
    \/ \E call \in calls : SetOffers(call)

SpecGuard == InitGuard /\ [][NextGuard]_vars

\* ------------------------------------------------------------------ a timed trip
\* Trip 1 of customer 1 is accepted with the offer of driver 2; every browser
\* is logged in and has fetched the rows.  startTrip and completeTrip are
\* called at every time of the clocks, at most MaxClockOps times.
ClockTimes == {m * SecPerMin + s : m \in 0..MaxClockMin, s \in {0, 1}}

ClockTrips ==
    <<[TripRow(1, 1, 1) EXCEPT !.status = "accepted", !.driver_id = 2, !.final_price = 1]>>

ClockOffers == <<[OfferRow(1, 1, 2, 1, 2) EXCEPT !.status = "accepted"]>>

InitClock ==
    /\ dbTrips = ClockTrips
    /\ dbOffers = ClockOffers
    /\ tripSeq = 1
    /\ offerSeq = 1
    /\ clock = 2
    /\ user = [c \in Clients |-> c]
    /\ trips = [c \in Clients |-> ClockTrips]
    /\ offers = [c \in Clients |-> ClockOffers]
    /\ calls = {}
    /\ live = [c \in Clients |-> FALSE]
    /\ chan = [c \in Clients |-> [trips |-> <<>>, offers |-> <<>>]]
    /\ ops = 0
    /\ gap = [c \in Clients |-> FALSE]
    /\ resolved = [c \in Clients |-> "pending"]
    /\ NothingRejected

NextClock ==
    \/ \E c \in Clients, now \in ClockTimes : ops < MaxClockOps /\ StartTrip(c, 1, now)
    \/ \E c \in Clients, now \in ClockTimes : ops < MaxClockOps /\ CompleteTrip(c, 1, now)
    \/ \E call \in calls : SelectTrips(call, FALSE)
    \/ \E call \in calls : SetTrips(call)
    \/ \E call \in calls : SelectOffers(call, FALSE)
    \/ \E call \in calls : SetOffers(call)

SpecClock == InitClock /\ [][NextClock]_vars

\* ------------------------------------------------------------------ createTrip and placeOffer by anybody
\* The store is empty; a browser is logged out or has logged in and fetched
\* the empty tables.
InitCreate ==
    /\ dbTrips = <<>>
    /\ dbOffers = <<>>
    /\ tripSeq = 0
    /\ offerSeq = 0
    /\ clock = 0
    /\ user \in [Clients -> {NULL} \cup Clients]
    /\ \A c \in Clients : user[c] \in {NULL} \cup Accounts(c)
    /\ trips = [c \in Clients |-> <<>>]
    /\ offers = [c \in Clients |-> <<>>]
    /\ calls = {}
    /\ live = [c \in Clients |-> FALSE]
    /\ chan = [c \in Clients |-> [trips |-> <<>>, offers |-> <<>>]]
    /\ ops = 0
    /\ gap = [c \in Clients |-> FALSE]
    /\ resolved = [c \in Clients |-> "pending"]
    /\ NothingRejected

\* Every browser, logged in or not, calls createTrip with every object and
\* placeOffer for every trip of the store, at most MaxCreateOps times; the
\* channels are unjoined and the selects of fetchAllData return no error.
NextCreate ==
    \/ \E c \in Clients, tripData \in TripData :
          ops < MaxCreateOps /\ CreateTripCall(c, tripData, clock + 1)
    \/ \E c \in Clients, t \in TripIds :
          ops < MaxCreateOps /\ PlaceOfferCall(c, t, 1, clock + 1)
    \/ \E call \in calls : SelectTrips(call, FALSE)
    \/ \E call \in calls : SetTrips(call)
    \/ \E call \in calls : SelectOffers(call, FALSE)
    \/ \E call \in calls : SetOffers(call)

SpecCreate == InitCreate /\ [][NextCreate]_vars

\* ------------------------------------------------------------------ a stream that repeats itself
\* Client 1 is logged in, its channels have joined and its collections are
\* still empty.  The store holds MaxTrips trips and MaxOffers offers and is at
\* rest, while the stream hands the handlers the events of these rows and of
\* their earlier versions in any order and any number of times, one at a
\* time, and fetchAllData runs in between, one call at a time.
FeedTripRows == UNION {{TripRow(id, 1, at) : at \in {id, id + 1}} : id \in TripIds}
FeedOfferRows == UNION {{OfferRow(id, 1, 2, 1, at) : at \in {id, id + 1}} : id \in OfferIds}

FeedTripPayloads ==
    {Event(type, row) : type \in {"INSERT", "UPDATE", "DELETE"}, row \in FeedTripRows}

FeedOfferPayloads ==
    {Event(type, row) : type \in {"INSERT", "UPDATE", "DELETE"}, row \in FeedOfferRows}

InitFeed ==
    /\ dbTrips = [t \in TripIds |-> TripRow(t, 1, t + 1)]
    /\ dbOffers = [o \in OfferIds |-> OfferRow(o, 1, 2, 1, o + 1)]
    /\ tripSeq = MaxTrips
    /\ offerSeq = MaxOffers
    /\ clock = MaxTrips + MaxOffers + 1
    /\ user = [c \in Clients |-> IF c = 1 THEN 1 ELSE NULL]
    /\ trips = [c \in Clients |-> <<>>]
    /\ offers = [c \in Clients |-> <<>>]
    /\ calls = {}
    /\ live = [c \in Clients |-> c = 1]
    /\ chan = [c \in Clients |-> [trips |-> <<>>, offers |-> <<>>]]
    /\ ops = 0
    /\ gap = [c \in Clients |-> FALSE]
    /\ resolved = [c \in Clients |-> "pending"]
    /\ NothingRejected

\* the callback of .on('postgres_changes', { event: '*', ... }) is handed a payload
Delivered(c, table, payload) ==
    /\ live[c]
    /\ chan' = [chan EXCEPT ![c][table] = Append(@, payload)]
    /\ UNCHANGED <<storeVars, clientVars, calls, live, gap, ops, rejectVars>>

\* fetchAllData() is called
FetchAllData(c) ==
    /\ user[c] # NULL
    /\ CanCall
    /\ calls' = calls \cup {FetchCall(c)}
    /\ UNCHANGED <<storeVars, clientVars, streamVars, ops, rejectVars>>

NextFeed ==
    \/ \E c \in Clients, payload \in FeedTripPayloads : Drained /\ Delivered(c, "trips", payload)
    \/ \E c \in Clients, payload \in FeedOfferPayloads : Drained /\ Delivered(c, "offers", payload)
    \/ \E c \in Clients : TripsRealtime(c)
    \/ \E c \in Clients : OffersRealtime(c)
    \/ \E c \in Clients : calls = {} /\ FetchAllData(c)
    \/ \E call \in calls : SelectTrips(call, FALSE)
    \/ \E call \in calls : SetTrips(call)
    \/ \E call \in calls : SelectOffers(call, FALSE)
    \/ \E call \in calls : SetOffers(call)

SpecFeed == InitFeed /\ [][NextFeed]_vars

\* ------------------------------------------------------------------ rejecting trips in a session
\* The browsers of InitGuard: the trips of the store are rejected from any of
\* them, at most MaxRejectOps times, and the dashboards render in between or
\* later.
NextReject ==
    \/ \E c \in Clients, t \in TripIds : ops < MaxRejectOps /\ HandleRejectTrip(c, t)
    \/ \E c \in Clients : Render(c)

SpecReject == InitGuard /\ [][NextReject]_vars

\* ------------------------------------------------------------------ claims
OffersOf(t) == {o \in DOMAIN dbOffers : dbOffers[o].trip_id = t}
AcceptedOffersOf(t) == {o \in OffersOf(t) : dbOffers[o].status = "accepted"}
PendingOffersOf(t) == {o \in OffersOf(t) : dbOffers[o].status = "pending"}

\* the calls of acceptOffer whose trip update has gone through
PastTripUpdate(call) == call.offerId # NULL /\ call.pc # "updateTrip"

\* C1: in every state of the store, a trip has no accepted offer while its
\* status is requested and exactly one accepted offer once it is anything else.
C1_AcceptedCount ==
    \A t \in DOMAIN dbTrips :
        Cardinality(AcceptedOffersOf(t)) = IF dbTrips[t].status = "requested" THEN 0 ELSE 1

\* C2: of two concurrent acceptOffer calls for two different offers of one
\* trip, both made while the store held the trip as requested, only one gets
\* its updates through; the other changes nothing in the store.
C2_OneWinner ==
    \A c1, c2 \in calls :
        (/\ c1.offerId # NULL /\ c2.offerId # NULL
         /\ c1.tripId = c2.tripId /\ c1.offerId # c2.offerId
         /\ c1.storeStatus = "requested" /\ c2.storeStatus = "requested")
        => ~(PastTripUpdate(c1) /\ PastTripUpdate(c2))

\* C3: acceptOffer is atomic: once the trip update of a call has gone through,
\* also after its last store statement, no reader sees the trip accepted while
\* the targeted offer or a sibling offer is still pending.
C3_Atomic ==
    \A call \in calls :
        PastTripUpdate(call) =>
            ~(/\ dbTrips[call.tripId].status = "accepted"
              /\ PendingOffersOf(call.tripId) # {})

\* C4: the reject step of a successful acceptOffer(A) on trip T sets every
\* other pending offer of T in the store to rejected and leaves the offers of
\* every other trip as they are.
C4_RejectsSiblings ==
    [][\A call \in calls :
          (/\ RejectStep(call, FALSE)
           /\ dbTrips[call.tripId].status = "accepted"
           /\ dbOffers[call.offerId].status = "accepted")
          => \A o \in DOMAIN dbOffers :
                IF dbOffers[o].trip_id = call.tripId
                THEN (o # call.offerId /\ dbOffers[o].status = "pending")
                        => dbOffers'[o].status = "rejected"
                ELSE dbOffers'[o] = dbOffers[o]]_vars

\* C5: the trip update of acceptOffer changes the store only if the store
\* holds the offer as pending and its trip as requested.
C5_GuardedAccept ==
    [][\A call \in calls :
          (/\ TripStep(call, FALSE)
           /\ ~(/\ dbOffers[call.offerId].status = "pending"
                /\ dbTrips[call.tripId].status = "requested"))
          => UNCHANGED <<dbTrips, dbOffers>>]_vars

\* C6: every trip that is not requested carries the driver_id and the price
\* of the one accepted offer of that trip.
C6_WinnerTerms ==
    \A t \in DOMAIN dbTrips :
        dbTrips[t].status # "requested" =>
            /\ Cardinality(AcceptedOffersOf(t)) = 1
            /\ \A o \in AcceptedOffersOf(t) :
                  /\ dbTrips[t].driver_id = dbOffers[o].driver_id
                  /\ dbTrips[t].final_price = dbOffers[o].price

LegalSteps ==
    {<<"requested", "accepted">>, <<"accepted", "in_transit">>,
     <<"in_transit", "completed">>, <<"completed", "paid">>}

\* C7: a stored trip changes only together with one of the four status steps
\* requested->accepted, accepted->in_transit, in_transit->completed,
\* completed->paid; every other request leaves the trip unchanged.
C7_LegalSteps ==
    [][\A t \in DOMAIN dbTrips :
          dbTrips'[t] # dbTrips[t] =>
              <<dbTrips[t].status, dbTrips'[t].status>> \in LegalSteps]_vars

\* C8: completeTrip on a trip whose stored status is not in_transit performs
\* no store update, also when the caller's copy of the trip is stale.
C8_CompleteGuarded ==
    [][\A c \in Clients, t \in TripIds, now \in Times :
          (CompleteTrip(c, t, now) /\ dbTrips[t].status # "in_transit")
          => UNCHANGED dbTrips]_vars

\* C9: an offer stored as accepted, rejected or cancelled keeps that status.
C9_TerminalOffers ==
    [][\A o \in DOMAIN dbOffers :
          dbOffers[o].status \in {"accepted", "rejected", "cancelled"}
          => dbOffers'[o].status = dbOffers[o].status]_vars

\* C10: for every stored trip, driver_id is non-null exactly when the status
\* is accepted, in_transit, completed or paid, and so is final_price.
C10_NullIffRequested ==
    \A t \in DOMAIN dbTrips :
        /\ dbTrips[t].driver_id # NULL <=> dbTrips[t].status # "requested"
        /\ dbTrips[t].final_price # NULL <=> dbTrips[t].status # "requested"

\* C11: the merge of an Insert event is idempotent, for trips and for offers:
\* applying the event once more to the collection the handler has produced
\* yields that collection again, same elements in the same order.
C11_InsertIdempotent ==
    [][\A c \in Clients :
          /\ (TripsRealtime(c) /\ Head(chan[c].trips).eventType = "INSERT")
                => Merge(trips'[c], Head(chan[c].trips)) = trips'[c]
          /\ (OffersRealtime(c) /\ Head(chan[c].offers).eventType = "INSERT")
                => Merge(offers'[c], Head(chan[c].offers)) = offers'[c]]_vars

\* an Insert event has been merged into a collection of several rows and its
\* replay is waiting
C11_Witness ==
    \E c \in Clients :
        /\ Len(chan[c].trips) = 1
        /\ Head(chan[c].trips).eventType = "INSERT"
        /\ HasId(trips[c], Head(chan[c].trips).new.id)
        /\ Len(trips[c]) >= 2

\* C12: an Update event for an entity whose id is not in the local collection
\* leaves the collection holding the entity with the fields of the update.
C12_UpdateUpserts ==
    [][\A c \in Clients :
          /\ (TripsRealtime(c) /\ Head(chan[c].trips).eventType = "UPDATE")
                => /\ HasId(trips'[c], Head(chan[c].trips).new.id)
                   /\ FindById(trips'[c], Head(chan[c].trips).new.id) = Head(chan[c].trips).new
          /\ (OffersRealtime(c) /\ Head(chan[c].offers).eventType = "UPDATE")
                => /\ HasId(offers'[c], Head(chan[c].offers).new.id)
                   /\ FindById(offers'[c], Head(chan[c].offers).new.id)
                        = Head(chan[c].offers).new]_vars

\* C13: a Delete event whose id is not in the local collection, or which
\* carries no old id, leaves the collection as it is: same elements, same
\* order, nothing added.
C13_DeleteAbsentNoOp ==
    [][\A c \in Clients :
          /\ (/\ TripsRealtime(c)
              /\ Head(chan[c].trips).eventType = "DELETE"
              /\ ~HasId(trips[c], Head(chan[c].trips).oldId))
                => trips'[c] = trips[c]
          /\ (/\ OffersRealtime(c)
              /\ Head(chan[c].offers).eventType = "DELETE"
              /\ ~HasId(offers[c], Head(chan[c].offers).oldId))
                => offers'[c] = offers[c]]_vars

\* a Delete event for an id the collection never held has been handled, the
\* collection still holds all its rows, and the replay is waiting
C13_Witness ==
    \E c \in Clients :
        /\ Len(chan[c].trips) = 1
        /\ Head(chan[c].trips).eventType = "DELETE"
        /\ Head(chan[c].trips).oldId # NULL
        /\ ~HasId(trips[c], Head(chan[c].trips).oldId)
        /\ Len(trips[c]) = MaxTrips

\* C14: every local trips collection is sorted by created_at descending,
\* trips of equal created_at by id descending.
C14_SortedTrips ==
    \A c \in Clients : \A i, j \in DOMAIN trips[c] :
        i < j => \/ trips[c][i].created_at > trips[c][j].created_at
                 \/ /\ trips[c][i].created_at = trips[c][j].created_at
                    /\ trips[c][i].id > trips[c][j].id

\* the collections of a client hold the rows of the store
InSync(c) == Range(trips[c]) = Rows(dbTrips) /\ Range(offers[c]) = Rows(dbOffers)

\* C15: with every event after the subscription delivered and the store at
\* rest in the end, the collections of every logged-in client whose channels
\* have joined equal the store's from some point on.
C15_Converges == <>[](\A c \in Clients : (user[c] # NULL /\ live[c]) => InSync(c))

\* C16: once the trips and the offers of a logged-in client are populated, a
\* step empties one of them only by setting the rows a select returned without
\* error.
C16_NoEmptyFlash ==
    [][\A c \in Clients :
          (/\ user[c] # NULL /\ user'[c] # NULL
           /\ trips[c] # <<>> /\ offers[c] # <<>>
           /\ (trips'[c] = <<>> \/ offers'[c] = <<>>))
          => \E call \in calls :
                /\ call.client = c /\ ~call.failed
                /\ SetTrips(call) \/ SetOffers(call)]_vars

\* C17: after its channels have dropped and joined again, a logged-in client
\* with no call in flight merges no stream event before a fetchAllData of its own has selected from the store.
C17_ResyncAfterGap ==
    [][\A c \in Clients :
          (/\ TripsRealtime(c) \/ OffersRealtime(c)
           /\ user[c] # NULL /\ live[c]
           /\ \A call \in calls : call.client # c)
          => ~gap[c]]_vars

\* C18: an acceptOffer call that fails at its trip update resolves with a
\* value other than the one a successful acceptance resolves with.
C18_FailureTold ==
    [][\A call \in calls :
          TripStep(call, TRUE) => resolved'[call.client] # Fulfilled]_vars

\* the estimate is unavailable: no driver or city, the function throws or
\* returns an error, or its data holds no etaMinutes
EtaFailed(hasCity, response) ==
    ~hasCity \/ response.outcome # "data" \/ response.etaMinutes = NULL

\* C19: when the ETA is unavailable, acceptOffer goes on to its trip update
\* with a null ETA; that update sets the trip accepted with
\* driver_arrival_time_min null, and the offer update sets the offer accepted.
C19_EtaBestEffort ==
    [][/\ \A c \in Clients, o \in OfferIds, hasCity \in BOOLEAN, response \in EtaResponses :
             (EtaFailed(hasCity, response) /\ AcceptOffer(c, o, DriverEta(hasCity, response)))
             => \E call \in calls' :
                   /\ call.client = c /\ call.offerId = o
                   /\ call.pc = "updateTrip" /\ call.eta = NULL
       /\ \A call \in calls :
             (call.offerId # NULL /\ call.eta = NULL /\ TripStep(call, FALSE))
             => /\ dbTrips'[call.tripId].status = "accepted"
                /\ dbTrips'[call.tripId].driver_arrival_time_min = NULL
       /\ \A call \in calls :
             (call.offerId # NULL /\ call.eta = NULL /\ OfferStep(call, FALSE))
             => dbOffers'[call.offerId].status = "accepted"]_vars

\* an acceptance has gone through its trip and offer updates without an ETA
C19_Witness ==
    \E t \in DOMAIN dbTrips, o \in DOMAIN dbOffers :
        /\ dbTrips[t].status = "accepted"
        /\ dbTrips[t].driver_arrival_time_min = NULL
        /\ dbOffers[o].trip_id = t
        /\ dbOffers[o].status = "accepted"
        /\ dbTrips[t].driver_id = dbOffers[o].driver_id

\* C20: an offer is inserted only on a trip that the store holds as requested.
C20_OfferOnRequested ==
    [][\A o \in DOMAIN dbOffers' \ DOMAIN dbOffers :
          dbTrips[dbOffers'[o].trip_id].status = "requested"]_vars

\* C21: a trip is removed from the store only while its stored status is
\* requested: a delete that reaches the store when the trip is accepted,
\* in_transit, completed or paid removes nothing.
C21_DeleteOnlyRequested ==
    [][\A t \in DOMAIN dbTrips :
          t \notin DOMAIN dbTrips' => dbTrips[t].status = "requested"]_vars

\* C22: a call of acceptOffer made with no logged-in user, by a user who is
\* not a customer, or by a customer who is not the customer_id of the offer's
\* trip leaves the trips and offers of the store as they are and starts no
\* call that would update them.
C22_AcceptRefused ==
    [][\A c \in Clients, o \in DOMAIN dbOffers :
          (/\ AcceptOfferCall(c, o, NULL)
           /\ IF user[c] = NULL THEN TRUE
              ELSE \/ Role(user[c]) # "customer"
                   \/ dbTrips[dbOffers[o].trip_id].customer_id # user[c])
          => UNCHANGED <<dbTrips, dbOffers>> /\ calls' = calls]_vars

\* calls of acceptOffer have returned in a logged-out browser and in the
\* browser of a customer, and the store holds every trip as requested
C22_Witness ==
    /\ \E c \in Clients : user[c] = NULL /\ resolved[c] = Fulfilled
    /\ \E c \in Clients :
          user[c] # NULL /\ Role(user[c]) = "customer" /\ resolved[c] = Fulfilled
    /\ \A t \in DOMAIN dbTrips : dbTrips[t].status = "requested"

\* C23: startTrip and completeTrip called by a user who is not a driver, or
\* with no logged-in user, leave the trips of the store as they are.
C23_DriverOnly ==
    [][\A c \in Clients, t \in TripIds, now \in Times :
          (/\ StartTrip(c, t, now) \/ CompleteTrip(c, t, now)
           /\ user[c] = NULL \/ Role(user[c]) # "driver")
          => UNCHANGED dbTrips]_vars

\* C24: startTrip stores the time of the call as start_time; a completeTrip
\* called at time now for a trip it reads with start_time s stores status
\* completed and the least number of minutes k that covers now - s, so that
\* exactly 60k seconds give k and 60k + 1 seconds give k + 1.
C24_DurationCeil ==
    [][\A c \in Clients, now \in ClockTimes :
          /\ StartTrip(c, 1, now) => dbTrips'[1].start_time = now
          /\ CompleteTrip(c, 1, now) =>
                LET d == now - FindById(trips[c], 1).start_time
                    k == dbTrips'[1].final_duration_min
                IN /\ dbTrips'[1].status = "completed"
                   /\ SecPerMin * (k - 1) < d /\ d <= SecPerMin * k
                   /\ d % SecPerMin = 0 => k = d \div SecPerMin
                   /\ d % SecPerMin = 1 => k = d \div SecPerMin + 1]_vars

\* a trip started at second 0 has been completed 60k + 1 seconds later,
\* k = MaxClockMin, and k + 1 minutes are stored
C24_Witness ==
    /\ dbTrips[1].status = "completed"
    /\ dbTrips[1].start_time = 0
    /\ dbTrips[1].final_duration_min = MaxClockMin + 1

\* the entries with the id of row are row, every other position holds what it held
ReplacedInPlace(before, after, row) ==
    /\ Len(after) = Len(before)
    /\ \A i \in DOMAIN before :
          after[i] = IF before[i].id = row.id THEN row ELSE before[i]

\* C25: an Update event for an id of the local collection puts the event's
\* row in the place of that entry and leaves the other entries, the length
\* and every position as they are; the same event applied once more changes
\* nothing.
C25_UpdateInPlace ==
    [][\A c \in Clients :
          /\ (/\ TripsRealtime(c)
              /\ Head(chan[c].trips).eventType = "UPDATE"
              /\ HasId(trips[c], Head(chan[c].trips).new.id))
                => /\ ReplacedInPlace(trips[c], trips'[c], Head(chan[c].trips).new)
                   /\ Merge(trips'[c], Head(chan[c].trips)) = trips'[c]
          /\ (/\ OffersRealtime(c)
              /\ Head(chan[c].offers).eventType = "UPDATE"
              /\ HasId(offers[c], Head(chan[c].offers).new.id))
                => /\ ReplacedInPlace(offers[c], offers'[c], Head(chan[c].offers).new)
                   /\ Merge(offers'[c], Head(chan[c].offers)) = offers'[c]]_vars

\* an Update event has been merged into a collection of several rows: the
\* entry is the event's row, at its old position although its created_at now
\* sorts elsewhere, and the replay is waiting
C25_Witness ==
    \E c \in Clients :
        /\ Len(chan[c].trips) = 1
        /\ Head(chan[c].trips).eventType = "UPDATE"
        /\ HasId(trips[c], Head(chan[c].trips).new.id)
        /\ FindById(trips[c], Head(chan[c].trips).new.id) = Head(chan[c].trips).new
        /\ Len(trips[c]) >= 2
        /\ ~IsSortedDesc(trips[c])

\* C26: every trip enters the store requested, without a driver and with the
\* calling customer as customer_id, and every offer enters it pending with
\* the calling driver as driver_id; createTrip called by anybody but a
\* customer and placeOffer called by anybody but a driver return an AuthError
\* and insert nothing.
C26_CreationDefaults ==
    [][/\ \A c \in Clients, tripData \in TripData :
             CreateTripCall(c, tripData, clock + 1) =>
                IF user[c] # NULL /\ Role(user[c]) = "customer"
                THEN \A t \in DOMAIN dbTrips' \ DOMAIN dbTrips :
                        /\ dbTrips'[t].status = "requested"
                        /\ dbTrips'[t].driver_id = NULL
                        /\ dbTrips'[t].customer_id = user[c]
                ELSE /\ resolved'[c] = "AuthError"
                     /\ UNCHANGED <<dbTrips, dbOffers>> /\ calls' = calls
       /\ \A c \in Clients, t \in TripIds :
             PlaceOfferCall(c, t, 1, clock + 1) =>
                IF user[c] # NULL /\ Role(user[c]) = "driver"
                THEN \A o \in DOMAIN dbOffers' \ DOMAIN dbOffers :
                        /\ dbOffers'[o].status = "pending"
                        /\ dbOffers'[o].driver_id = user[c]
                ELSE /\ resolved'[c] = "AuthError"
                     /\ UNCHANGED <<dbTrips, dbOffers>> /\ calls' = calls]_vars

\* a trip and an offer have entered the store and a call has been refused
C26_Witness ==
    /\ DOMAIN dbTrips # {}
    /\ DOMAIN dbOffers # {}
    /\ \E c \in Clients : resolved[c] = "AuthError"

\* no two entries of a collection have the same id
DistinctIds(s) == \A i, j \in DOMAIN s : i # j => s[i].id # s[j].id

\* C27: whatever Insert, Update and Delete events, duplicates and replays
\* included, are merged and whatever full refreshes are applied in between,
\* the local trips and the local offers each hold at most one entry per id.
C27_OneEntryPerId ==
    \A c \in Clients : DistinctIds(trips[c]) /\ DistinctIds(offers[c])

\* the collections hold every id after merges and a refresh, the Insert of an
\* earlier version of a row they hold is waiting, and the result of another
\* refresh is about to be applied
C27_Witness ==
    \E c \in Clients :
        /\ Len(trips[c]) = MaxTrips /\ Len(offers[c]) = MaxOffers
        /\ chan[c].trips # <<>>
        /\ Head(chan[c].trips).eventType = "INSERT"
        /\ HasId(trips[c], Head(chan[c].trips).new.id)
        /\ FindById(trips[c], Head(chan[c].trips).new.id) # Head(chan[c].trips).new
        /\ \E call \in calls : call.client = c /\ call.pc = "setTrips"

\* the entries of before that show the row the store holds are still the
\* same in after, where after has an entry of that id
KeepsLatest(before, after, table) ==
    \A i \in DOMAIN before :
        (before[i] = table[before[i].id] /\ HasId(after, before[i].id))
        => FindById(after, before[i].id) = before[i]

\* C28: the local view of an entity never regresses: a trip or an offer that
\* the collection shows in the state the store holds is not put back to an
\* older version by the result of a fetchAllData, whenever that result was
\* selected.
C28_NoRegress ==
    [][\A call \in calls :
          /\ SetTrips(call) => KeepsLatest(trips[call.client], trips'[call.client], dbTrips)
          /\ SetOffers(call) => KeepsLatest(offers[call.client], offers'[call.client], dbOffers)]_vars

\* C30: while no user is logged in at a client after a logout, its local
\* trips and offers are empty: neither a fetchAllData in flight at the logout
\* nor a realtime event delivered after it puts rows back.
C30_EmptyAfterLogout ==
    \A c \in Clients : user[c] = NULL => trips[c] = <<>> /\ offers[c] = <<>>

====
